---- MODULE Spec2Model ----
(***************************************************************************)
(* A model of src/wavm/wavm.cc: the WAVM embedding of proxy-wasm-cpp-host. *)
(* The Wavm object (load / link / clone / memory accessors / getFunction), *)
(* the RootResolver used while linking, and loadModule's format detection. *)
(***************************************************************************)
EXTENDS Integers, Sequences, FiniteSets, TLC

\* ------------------------------------------------------------------ bounds
\* VM objects that may exist at once (the original and its clones).
MaxVms == 2
\* Longest payload handed to setMemory / longest range asked of getMemory.
MaxLen == 2
\* Largest page count guest linear memory may grow to.
MaxPages == 2
\* Most fallback resolvers added to a RootResolver.
MaxResolvers == 2
\* Longest code handed to loadModule.
MaxCodeLen == 5
\* Deepest nesting of guest calls (a host callback calling the guest again).
MaxDepth == 2

VmIds == 1..MaxVms
\* Every load and every clone creates one compartment.
CompIds == 1..(2 * MaxVms)

\* ------------------------------------------------- uint64_t arithmetic
\* A uint64_t is four 16-bit limbs, least significant first, so that the
\* 64-bit wrap-around of the source's arithmetic is kept.
LimbBase == 2^16

U64Set(limbs) == {<<a, b, c, d>> : a \in limbs, b \in limbs, c \in limbs, d \in limbs}

\* A natural below 2^31 as a uint64_t.
ToU64(n) == <<n % LimbBase, n \div LimbBase, 0, 0>>

\* 2^64 - k for 1 <= k <= 2^16: the top of the address type.
TopMinus(k) == <<LimbBase - k, LimbBase - 1, LimbBase - 1, LimbBase - 1>>

\* The limb-wise sum with its carries; carry = 1 exactly when a + b >= 2^64.
AddCarry(a, b) ==
  LET s1 == a[1] + b[1]
      s2 == a[2] + b[2] + (s1 \div LimbBase)
      s3 == a[3] + b[3] + (s2 \div LimbBase)
      s4 == a[4] + b[4] + (s3 \div LimbBase)
  IN  [sum   |-> <<s1 % LimbBase, s2 % LimbBase, s3 % LimbBase, s4 % LimbBase>>,
       carry |-> s4 \div LimbBase]

\* a + b as the source computes it: uint64_t addition, modulo 2^64.
U64Add(a, b) == AddCarry(a, b).sum

\* a > b on uint64_t.
U64Gt(a, b) ==
  \/ a[4] > b[4]
  \/ a[4] = b[4] /\ a[3] > b[3]
  \/ a[4] = b[4] /\ a[3] = b[3] /\ a[2] > b[2]
  \/ a[4] = b[4] /\ a[3] = b[3] /\ a[2] = b[2] /\ a[1] > b[1]

U64Le(a, b) == ~U64Gt(a, b)

\* The value of a uint64_t below 2^31 as a natural.
ToNat(a) == a[1] + a[2] * LimbBase

FitsNat(a) == a[3] = 0 /\ a[4] = 0 /\ a[2] < 2^14

\* ------------------------------------------------------- program constants
WasmPageSize == 65536
\* sizeof(uint32_t)
WordSize == 4
NullPtr == 0
\* memory_ has no initializer: until link or clone assigns it, it is garbage.
Uninit == -1

ZeroU64 == ToU64(0)

\* ------------------------------------------------------------ IR values
\* IR::FunctionType: the result kind and the ordered argument kinds.
T_v    == [ret |-> "void", args |-> <<>>]
T_v_i  == [ret |-> "void", args |-> <<"i32">>]
T_i_i  == [ret |-> "i32",  args |-> <<"i32">>]
T_v_l  == [ret |-> "void", args |-> <<"i64">>]
T_v_ii == [ret |-> "void", args |-> <<"i32", "i32">>]

\* The native signatures getFunction is instantiated for: R is void or
\* uint32_t and every argument is uint32_t, so every inferred kind is i32.
inferStdFunctionType(sig) == sig
NativeSignatures == {T_v, T_v_i, T_i_i, T_v_ii}

getPrecompiledSectionName == "wavm.precompiled_object"

\* IR::Module as default-constructed: the value of ir_module_ before load.
EmptyModule ==
  [imports |-> <<>>, exports |-> {}, customSections |-> <<>>, pages |-> 0]

\* Guest modules the embedding loads in this model.  ModuleA imports env.log
\* as (i32) -> void, exports three functions and carries four custom
\* sections, two of them under the precompiled-object name; ModuleB imports
\* env.log as (i32) -> i32 and has no custom section.
ModuleA ==
  [imports |-> << [module |-> "env", name |-> "log", type |-> T_v_i] >>,
   exports |-> { [name |-> "run", type |-> T_v_i],
                 [name |-> "get", type |-> T_i_i],
                 [name |-> "wide", type |-> T_v_l] },
   customSections |-> << [name |-> "producers", data |-> <<1>>],
                         [name |-> "wavm.precompiled_object.old", data |-> <<9>>],
                         [name |-> getPrecompiledSectionName, data |-> <<2, 3>>],
                         [name |-> getPrecompiledSectionName, data |-> <<4>>] >>,
   pages |-> 1]
ModuleB ==
  [imports |-> << [module |-> "env", name |-> "log", type |-> T_i_i] >>,
   exports |-> { [name |-> "run", type |-> T_v_i] },
   customSections |-> <<>>,
   pages |-> 1]

\* --------------------------------------------------------- loadModule
WasmMagicNumber == <<0, 97, 115, 109>>

\* memcmp(a, b, n) = 0: the first n bytes agree.
RECURSIVE MemEq(_, _, _)
MemEq(a, b, n) ==
  IF n = 0 THEN TRUE
  ELSE a[n] = b[n] /\ MemEq(a, b, n - 1)

\* WASM::loadBinaryModule and WAST::parseModule are the engine's.  Here a
\* binary module is the magic followed by one byte naming the module, and a
\* text module is "(" followed by that byte; anything else is a format error.
ParsedBody(b) == IF b = 1 THEN ModuleA ELSE ModuleB
loadBinaryModule(code) ==
  IF Len(code) = 5 /\ code[5] \in {1, 2}
  THEN [ok |-> TRUE, module |-> ParsedBody(code[5])]
  ELSE [ok |-> FALSE, module |-> EmptyModule]
parseModule(code) ==
  IF Len(code) = 2 /\ code[1] = 40 /\ code[2] \in {1, 2}
  THEN [ok |-> TRUE, module |-> ParsedBody(code[2])]
  ELSE [ok |-> FALSE, module |-> EmptyModule]

\* The magic compared over the bytes there are, without the size check.
loadModuleNoSizeCheck(code) ==
  IF MemEq(code, WasmMagicNumber, IF Len(code) < 4 THEN Len(code) ELSE 4)
  THEN [parser |-> "binary", result |-> loadBinaryModule(code)]
  ELSE [parser |-> "text", result |-> parseModule(code)]

\* The parser is chosen by the magic number alone; the result is the parser's.
loadModule(code) ==
  IF Len(code) >= 4 /\ MemEq(code, WasmMagicNumber, 4)
  THEN [parser |-> "binary", result |-> loadBinaryModule(code)]
  ELSE [parser |-> "text", result |-> parseModule(code)]

\* --------------------------------------------------------- RootResolver
\* A Runtime::Object: who provides it and its extern type.
NullObject == [owner |-> "null", type |-> T_v]

\* The host-supplied fallback resolvers (Runtime::Resolver), by id.  Resolver
\* 1 offers env.log as (i32) -> void, resolver 2 offers env.log as
\* (i32) -> i32 and env.now as () -> void, resolver 3 offers env.log as
\* (i32) -> void and env.now as () -> void.
Resolvers == {1, 2, 3}
ResolverOffers(r) ==
  IF r = 1 THEN { [module |-> "env", name |-> "log", type |-> T_v_i] }
  ELSE IF r = 2 THEN { [module |-> "env", name |-> "log", type |-> T_i_i],
                        [module |-> "env", name |-> "now", type |-> T_v] }
  ELSE { [module |-> "env", name |-> "log", type |-> T_v_i],
         [module |-> "env", name |-> "now", type |-> T_v] }

\* r->resolve(module_name, export_name, type, out_object)
ResolverResolve(r, module_name, export_name, type) ==
  [module |-> module_name, name |-> export_name, type |-> type] \in ResolverOffers(r)

\* getInstanceExport(instance, name): the export of that name, or null.  An
\* instance is the set of its exports.
getInstanceExport(instance, export_name) ==
  IF \E e \in instance : e.name = export_name
  THEN LET e == CHOOSE x \in instance : x.name = export_name
       IN  [owner |-> "instance", type |-> e.type]
  ELSE NullObject

\* A type check that accepts every object.
isAAny(object, type) == TRUE

isA(object, type) == object.type = type

\* WasmVm::error(message) is declared in include/proxy-wasm/wasm_vm.h, which
\* is not part of the source at hand.  As the specification has it, the
\* failure is escalated to the caller: control does not come back.
error(message) == [thrown |-> TRUE, message |-> message]

\* The loop over resolvers_, from position i: the resolvers consulted, and
\* the first that reports success (0 when none does).
RECURSIVE TryResolvers(_, _, _, _, _)
TryResolvers(resolvers, i, module_name, export_name, type) ==
  IF i > Len(resolvers) THEN [consulted |-> <<>>, winner |-> 0]
  ELSE IF ResolverResolve(resolvers[i], module_name, export_name, type)
       THEN [consulted |-> <<resolvers[i]>>, winner |-> resolvers[i]]
       ELSE LET rest == TryResolvers(resolvers, i + 1, module_name, export_name, type)
            IN  [consulted |-> <<resolvers[i]>> \o rest.consulted,
                 winner |-> rest.winner]

\* The resolvers tried last-added first.
ResolveFallbackReversed(resolvers, module_name, export_name, type) ==
  LET reversed == [i \in 1..Len(resolvers) |-> resolvers[Len(resolvers) + 1 - i]]
      t == TryResolvers(reversed, 1, module_name, export_name, type)
  IN  IF t.winner # 0
      THEN [ret |-> TRUE, out_object |-> [owner |-> "resolver", type |-> type],
            winner |-> t.winner, consulted |-> t.consulted,
            error |-> "none"]
      ELSE [ret |-> FALSE, out_object |-> NullObject,
            winner |-> 0, consulted |-> t.consulted,
            error |-> error("missing import: " \o module_name \o "." \o export_name).message]

ResolveFallback(resolvers, module_name, export_name, type) ==
  LET t == TryResolvers(resolvers, 1, module_name, export_name, type)
  IN  IF t.winner # 0
      THEN [ret |-> TRUE, out_object |-> [owner |-> "resolver", type |-> type],
            winner |-> t.winner, consulted |-> t.consulted,
            error |-> "none"]
      ELSE [ret |-> FALSE, out_object |-> NullObject,
            winner |-> 0, consulted |-> t.consulted,
            error |-> error("missing import: " \o module_name \o "." \o export_name).message]

\* HashMap::get on module_name_to_instance_map_, a set of
\* [name, instance] entries with one entry per name: the entries of that name.
MapGet(map, module_name) == {e \in map : e.name = module_name}

\* HashMap::set
MapSet(map, module_name, instance) ==
  {e \in map : e.name # module_name} \cup {[name |-> module_name, instance |-> instance]}

\* A resolve that goes on to the fallback resolvers after a type mismatch.
resolveFallThrough(map, resolvers, module_name, export_name, type) ==
  LET named_instance == MapGet(map, module_name)
      found == named_instance # {}
      out_object == IF found
                    THEN getInstanceExport((CHOOSE e \in named_instance : TRUE).instance,
                                           export_name)
                    ELSE NullObject
  IN  IF found /\ out_object # NullObject /\ isA(out_object, type)
      THEN [ret |-> TRUE, out_object |-> out_object,
            winner |-> 0, consulted |-> <<>>, error |-> "none"]
      ELSE ResolveFallback(resolvers, module_name, export_name, type)

\* RootResolver::resolve.  ret = FALSE stands for the call ending in error():
\* nothing is returned to linkModule.
resolve(map, resolvers, module_name, export_name, type) ==
  LET named_instance == MapGet(map, module_name)
      found == named_instance # {}
      out_object == IF found
                    THEN getInstanceExport((CHOOSE e \in named_instance : TRUE).instance,
                                           export_name)
                    ELSE NullObject
  IN  IF found /\ out_object # NullObject
      THEN IF isA(out_object, type)
           THEN [ret |-> TRUE, out_object |-> out_object,
                 winner |-> 0, consulted |-> <<>>, error |-> "none"]
           ELSE [ret |-> FALSE, out_object |-> out_object,
                 winner |-> 0, consulted |-> <<>>,
                 error |-> error("type mismatch in an import: "
                                   \o module_name \o "." \o export_name).message]
      ELSE ResolveFallback(resolvers, module_name, export_name, type)

\* ------------------------------------------------------------- state
VARIABLES
  \* struct Wavm, one value per VM object
  alive,                         \* the VM objects that exist
  has_instantiated_module_,
  ir_module_,
  module_,
  module_instance_,
  memory_,
  compartment_,
  context_,
  intrinsic_modules_,
  intrinsic_module_instances_,
  memory_base_,
  base_fetched_at_,              \* the memory's page count when memory_base_ was fetched
  \* the engine's objects: what each Runtime::Compartment holds
  compartments,
  \* the embedding
  function,                      \* the std::function getFunction last wrote
  current_context_,              \* what SaveRestoreContext saves and sets
  call_stack,                    \* the guest calls in progress, innermost last
  host,                          \* "ok", "corrupt" (host memory overwritten), "crashed"
  last,                          \* the operation just completed and its result
  \* class RootResolver
  module_name_to_instance_map_,
  resolvers_,
  \* the input of loadModule
  code

wavmVars == <<alive, has_instantiated_module_, ir_module_, module_, module_instance_,
              memory_, compartment_, context_, intrinsic_modules_,
              intrinsic_module_instances_, memory_base_, base_fetched_at_>>
callVars == <<function, current_context_, call_stack>>
resolverVars == <<module_name_to_instance_map_, resolvers_>>
vars == <<wavmVars, compartments, callVars, host, last, resolverVars, code>>

\* Runtime::ModuleRef: null, or what compileModule / loadPrecompiledModule made.
NullModule == [kind |-> "null", ir |-> EmptyModule, object |-> <<>>]

\* A compartment: the module instance's exports, the intrinsic instances'
\* exports, and the default memory (page count and bytes).  bytes holds
\* <<offset, value>> for every non-zero byte; every other byte is zero.
NoCompartment ==
  [live |-> FALSE, instance |-> {}, intrinsics |-> {},
   pages |-> 0, bytes |-> {}]

NoFunction == [vm |-> 0, name |-> "", sig |-> T_v, type |-> T_v, instance |-> NullPtr]

NoLast ==
  [op |-> "none", vm |-> 0, ptr |-> ZeroU64, len |-> ZeroU64, data |-> <<>>,
   ok |-> FALSE, error |-> "none", errors |-> 0, name |-> "", sig |-> T_v,
   word |-> ZeroU64, parser |-> "none", size |-> ZeroU64, context |-> 0,
   module |-> "", object |-> NullObject, winner |-> 0, consulted |-> <<>>,
   allow |-> FALSE]

Running == host # "crashed"

\* createCompartment / cloneCompartment hand out a compartment not in use.
FreshCompartment == CHOOSE c \in CompIds :
  /\ ~compartments[c].live
  /\ \A d \in CompIds : ~compartments[d].live => c <= d

\* getMemoryBaseAddress(memory): where the memory of compartment c is mapped.
getMemoryBaseAddress(c) == c

\* The state after createVm: one VM, nothing loaded.
InitWavm ==
  /\ alive = {1}
  /\ has_instantiated_module_ = [v \in VmIds |-> FALSE]
  /\ ir_module_ = [v \in VmIds |-> EmptyModule]
  /\ module_ = [v \in VmIds |-> NullModule]
  /\ module_instance_ = [v \in VmIds |-> NullPtr]
  /\ memory_ = [v \in VmIds |-> Uninit]
  /\ compartment_ = [v \in VmIds |-> NullPtr]
  /\ context_ = [v \in VmIds |-> NullPtr]
  /\ intrinsic_modules_ = [v \in VmIds |-> {}]
  /\ intrinsic_module_instances_ = [v \in VmIds |-> {}]
  /\ memory_base_ = [v \in VmIds |-> NullPtr]
  /\ base_fetched_at_ = [v \in VmIds |-> 0]
  /\ compartments = [c \in CompIds |-> NoCompartment]
  /\ function = NoFunction
  /\ current_context_ = 0
  /\ call_stack = <<>>
  /\ host = "ok"
  /\ last = NoLast
  /\ module_name_to_instance_map_ = {}
  /\ resolvers_ = <<>>

Init == InitWavm /\ code = <<>>

\* -------------------------------------------------- registerCallbackWavm
\* The host functions the embedding registers: env.log with one of two types.
Callbacks ==
  { [module |-> "env", name |-> "log", type |-> T_v_i],
    [module |-> "env", name |-> "log", type |-> T_i_i] }

RegisterCallback(v, f) ==
  /\ Running /\ v \in alive
  /\ module_instance_[v] = NullPtr
  /\ \A g \in intrinsic_modules_[v] : ~(g.module = f.module /\ g.name = f.name)
  /\ intrinsic_modules_' = [intrinsic_modules_ EXCEPT ![v] = @ \cup {f}]
  /\ last' = [NoLast EXCEPT !.op = "registerCallback", !.vm = v, !.ok = TRUE,
                            !.name = f.name, !.sig = f.type]
  /\ UNCHANGED <<alive, has_instantiated_module_, ir_module_, module_, module_instance_,
                 memory_, compartment_, context_, intrinsic_module_instances_,
                 memory_base_, base_fetched_at_, compartments, callVars, host,
                 resolverVars, code>>

\* ------------------------------------------------------------ Wavm::load
CodeA == WasmMagicNumber \o <<1>>
CodeBText == <<40, 2>>
CodeTruncated == <<0, 97, 115>>
SampleCodes == {CodeA, CodeBText, CodeTruncated}

\* The first custom section named getPrecompiledSectionName(), as a
\* one-element set; empty when there is none.
RECURSIVE FirstPrecompiled(_, _)
FirstPrecompiled(sections, i) ==
  IF i > Len(sections) THEN {}
  ELSE IF sections[i].name = getPrecompiledSectionName THEN {sections[i]}
       ELSE FirstPrecompiled(sections, i + 1)

\* The precompiled section taken whenever there is one, whatever the flag.
LoadedModuleAnyFlag(ir, allow_precompiled) ==
  LET precompiled_object_section == FirstPrecompiled(ir.customSections, 1)
  IN  IF precompiled_object_section = {}
      THEN [kind |-> "compiled", ir |-> ir, object |-> <<>>]
      ELSE [kind |-> "precompiled", ir |-> ir,
            object |-> (CHOOSE x \in precompiled_object_section : TRUE).data]

\* module_ as load leaves it for a parsed module.
LoadedModule(ir, allow_precompiled) ==
  LET precompiled_object_section ==
        IF allow_precompiled THEN FirstPrecompiled(ir.customSections, 1) ELSE {}
  IN  IF precompiled_object_section = {}
      THEN [kind |-> "compiled", ir |-> ir, object |-> <<>>]
      ELSE [kind |-> "precompiled", ir |-> ir,
            object |-> (CHOOSE x \in precompiled_object_section : TRUE).data]

\* The flag set only once the module has parsed.
FlagWhenParsed(parsed_ok) == parsed_ok

\* has_instantiated_module_ = true comes before loadModule: the flag is set
\* whatever loadModule returns.
FlagAfterLoad(parsed_ok) == TRUE

\* What ASSERT(!has_instantiated_module_) evaluates: "none" when it holds.
LoadAssertion(v) ==
  IF has_instantiated_module_[v] THEN "ASSERT(!has_instantiated_module_)" ELSE "none"

\* The body of load after the assertion.
LoadBody(v, c, allow_precompiled) ==
  LET comp == FreshCompartment
      parsed == loadModule(c)
  IN  /\ has_instantiated_module_' =
            [has_instantiated_module_ EXCEPT ![v] = FlagAfterLoad(parsed.result.ok)]
      /\ compartments' = [compartments EXCEPT ![comp] = [NoCompartment EXCEPT !.live = TRUE]]
      /\ compartment_' = [compartment_ EXCEPT ![v] = comp]
      /\ context_' = [context_ EXCEPT ![v] = comp]
      /\ ir_module_' = [ir_module_ EXCEPT ![v] = parsed.result.module]
      /\ module_' = IF parsed.result.ok
                    THEN [module_ EXCEPT ![v] =
                            LoadedModule(parsed.result.module, allow_precompiled)]
                    ELSE module_
      /\ last' = [NoLast EXCEPT !.op = "load", !.vm = v, !.ok = parsed.result.ok,
                                !.parser = parsed.parser, !.data = c,
                                !.allow = allow_precompiled,
                                !.error = LoadAssertion(v),
                                !.errors = IF LoadAssertion(v) = "none" THEN 0 ELSE 1]

\* The first load of a VM: the assertion holds.
Load(v, c, allow_precompiled) ==
  /\ Running /\ v \in alive
  /\ ~has_instantiated_module_[v]
  /\ LoadBody(v, c, allow_precompiled)
  /\ UNCHANGED <<alive, module_instance_, memory_, intrinsic_modules_,
                 intrinsic_module_instances_, memory_base_, base_fetched_at_,
                 callVars, host, resolverVars, code>>

\* A load of a VM that was loaded before: the assertion is violated.  Where
\* the build keeps the assertion the process is aborted there; where it
\* compiles the assertion out, load runs again from the top.
Reload(v, c, allow_precompiled) ==
  /\ Running /\ v \in alive
  /\ has_instantiated_module_[v]
  /\ \/ /\ host' = "crashed"
        /\ last' = [NoLast EXCEPT !.op = "load", !.vm = v, !.data = c,
                                  !.allow = allow_precompiled,
                                  !.error = LoadAssertion(v), !.errors = 1]
        /\ UNCHANGED <<has_instantiated_module_, compartments, compartment_, context_,
                       ir_module_, module_>>
     \/ /\ \E free \in CompIds : ~compartments[free].live
        /\ LoadBody(v, c, allow_precompiled)
        /\ host' = host
  /\ UNCHANGED <<alive, module_instance_, memory_, intrinsic_modules_,
                 intrinsic_module_instances_, memory_base_, base_fetched_at_,
                 callVars, resolverVars, code>>

\* ------------------------------------------------------------ Wavm::link
\* The exports of the intrinsic module of that name: what
\* Intrinsics::instantiateModule makes of intrinsic_modules_[name].
IntrinsicExports(fs, module_name) ==
  {[name |-> f.name, type |-> f.type] : f \in {g \in fs : g.module = module_name}}

\* rootResolver.moduleNameToInstanceMap() after the loop over intrinsic_modules_.
LinkMap(fs) ==
  {[name |-> m, instance |-> IntrinsicExports(fs, m)] : m \in {f.module : f \in fs}}

\* linkModule(ir_module_, rootResolver): resolve is called for the imports in
\* order; the first one that ends in error() ends the link.
RECURSIVE linkModule(_, _, _)
linkModule(imports, map, i) ==
  IF i > Len(imports)
  THEN [ok |-> TRUE, error |-> "none", errors |-> 0]
  ELSE LET r == resolve(map, <<>>, imports[i].module, imports[i].name, imports[i].type)
       IN  IF r.ret THEN linkModule(imports, map, i + 1)
           ELSE [ok |-> FALSE, error |-> r.error, errors |-> 1]

\* instantiateModule(compartment_, module_, resolvedImports, debug_name): the
\* compartment then holds the instance and its default memory, zero-filled.
instantiateModule(comp, module) ==
  [comp EXCEPT !.instance = module.ir.exports,
               !.pages = module.ir.pages,
               !.bytes = {}]

Link(v) ==
  /\ Running /\ v \in alive
  /\ module_[v].kind # "null"
  /\ module_instance_[v] = NullPtr
  /\ LET c == compartment_[v]
         link_result == linkModule(ir_module_[v].imports, LinkMap(intrinsic_modules_[v]), 1)
         withIntrinsics == [compartments[c] EXCEPT !.intrinsics = @ \cup intrinsic_modules_[v]]
     IN  /\ intrinsic_module_instances_' =
               [intrinsic_module_instances_ EXCEPT ![v] =
                  @ \cup {[module |-> f.module, comp |-> c] : f \in intrinsic_modules_[v]}]
         /\ IF link_result.ok
            THEN /\ compartments' = [compartments EXCEPT ![c] =
                                       instantiateModule(withIntrinsics, module_[v])]
                 /\ module_instance_' = [module_instance_ EXCEPT ![v] = c]
                 /\ memory_' = [memory_ EXCEPT ![v] = c]
                 /\ memory_base_' = [memory_base_ EXCEPT ![v] = getMemoryBaseAddress(c)]
                 /\ base_fetched_at_' = [base_fetched_at_ EXCEPT ![v] = compartments'[c].pages]
            ELSE /\ compartments' = [compartments EXCEPT ![c] = withIntrinsics]
                 /\ UNCHANGED <<module_instance_, memory_, memory_base_, base_fetched_at_>>
         /\ last' = [NoLast EXCEPT !.op = "link", !.vm = v, !.ok = link_result.ok,
                                   !.error = link_result.error, !.errors = link_result.errors]
  /\ UNCHANGED <<alive, has_instantiated_module_, ir_module_, module_, compartment_,
                 context_, intrinsic_modules_, callVars, host, resolverVars, code>>

\* ----------------------------------------------------------- Wavm::clone
\* remapToClonedCompartment(object, compartment): the clone's copy of an
\* object of the cloned compartment.  Objects are named by their compartment.
remapToClonedCompartment(object, new_compartment) == new_compartment

CloneMemory(v, new_compartment) == remapToClonedCompartment(memory_[v], new_compartment)

FreshVm == CHOOSE w \in VmIds \ alive : \A x \in VmIds \ alive : w <= x

\* The parsed module handed on to the clone.
CopiedIrModule(v) == ir_module_[v]

\* std::make_unique<Wavm>(): the new object's ir_module_ is default-
\* constructed, and clone assigns nothing to it.
NewWavmIrModule(v) == EmptyModule

Clone(v) ==
  /\ Running /\ v \in alive
  /\ alive # VmIds
  /\ module_instance_[v] = compartment_[v] /\ memory_[v] = compartment_[v]
  /\ compartment_[v] # NullPtr
  /\ LET w == FreshVm
         c == FreshCompartment
     IN  /\ alive' = alive \cup {w}
         \* cloneCompartment: every object of the compartment is copied
         /\ compartments' = [compartments EXCEPT ![c] = compartments[compartment_[v]]]
         /\ compartment_' = [compartment_ EXCEPT ![w] = c]
         /\ memory_' = [memory_ EXCEPT ![w] = CloneMemory(v, c)]
         /\ memory_base_' = [memory_base_ EXCEPT ![w] = getMemoryBaseAddress(CloneMemory(v, c))]
         /\ base_fetched_at_' = [base_fetched_at_ EXCEPT ![w] = compartments'[c].pages]
         /\ context_' = [context_ EXCEPT ![w] = c]
         /\ intrinsic_module_instances_' =
               [intrinsic_module_instances_ EXCEPT ![w] =
                  {[module |-> p.module, comp |-> remapToClonedCompartment(p.comp, c)] :
                     p \in intrinsic_module_instances_[v]}]
         /\ module_instance_' =
               [module_instance_ EXCEPT ![w] = remapToClonedCompartment(module_instance_[v], c)]
         /\ ir_module_' = [ir_module_ EXCEPT ![w] = NewWavmIrModule(v)]
         /\ last' = [NoLast EXCEPT !.op = "clone", !.vm = w, !.ok = TRUE]
  /\ UNCHANGED <<has_instantiated_module_, module_, intrinsic_modules_,
                 callVars, host, resolverVars, code>>

\* ------------------------------------------------------- memory accessors
\* getMemoryNumPages(memory_) * WasmPageSize in uint64_t.  WasmPageSize is
\* 2^16, one limb: the product shifts the limbs up by one and drops the top.
MulWasmPageSize(a) == <<0, a[1], a[2], a[3]>>
memory_num_bytes(v) == MulWasmPageSize(ToU64(compartments[memory_[v]].pages))

\* The accessors' check, "pointer + size > memory_num_bytes" negated, with
\* the sum taken in uint64_t.
InBounds(pointer, size, num_bytes) == ~U64Gt(U64Add(pointer, size), num_bytes)

\* The bytes of a memory: <<offset, value>> for the non-zero ones.
ReadByte(bytes, off) ==
  IF \E x \in bytes : x[1] = off THEN (CHOOSE x \in bytes : x[1] = off)[2] ELSE 0
WriteByte(bytes, off, val) ==
  {x \in bytes : x[1] # off} \cup (IF val = 0 THEN {} ELSE {<<off, val>>})

\* The copy placed one byte too far.
ByteOffsetSkewed(pointer, i) == U64Add(pointer, ToU64(i + 1))

\* memory_base_ + pointer + i, as an offset from the base: uint8_t pointer
\* arithmetic, which wraps like uint64_t.
ByteOffset(pointer, i) == U64Add(pointer, ToU64(i))

\* Whether that offset lies in the memory mapped at the base, of `pages` pages.
InWindow(off, pages) == FitsNat(off) /\ ToNat(off) < pages * WasmPageSize

\* memcpy(memory_base_ + pointer, data, size), the part that lands in the
\* memory mapped at memory_base_: data[j] for j from i up.
RECURSIVE CopyIn(_, _, _, _, _)
CopyIn(bytes, pages, pointer, data, i) ==
  IF i > Len(data) THEN bytes
  ELSE LET off == ByteOffset(pointer, i - 1)
           b == IF InWindow(off, pages) THEN WriteByte(bytes, ToNat(off), data[i]) ELSE bytes
       IN  CopyIn(b, pages, pointer, data, i + 1)

\* The positions of data that memcpy writes outside that memory.
Outside(pages, pointer, n) ==
  {i \in 1..n : ~InWindow(ByteOffset(pointer, i - 1), pages)}

\* The part that lands below the base, when the memory of compartment d
\* happens to be mapped right below it: the byte at base - k is the k-th
\* byte from the end of d's memory.
RECURSIVE CopyBelow(_, _, _, _, _)
CopyBelow(bytes, pages, pointer, data, i) ==
  IF i > Len(data) THEN bytes
  ELSE LET off == ByteOffset(pointer, i - 1)
           \* off = 2^64 - k: k = 2^16 - off[1] while off is in the top limb range
           k == LimbBase - off[1]
           b == IF ~InWindow(off, pages) /\ off[4] = LimbBase - 1 /\ pages > 0
                THEN WriteByte(bytes, pages * WasmPageSize - k, data[i]) ELSE bytes
       IN  CopyBelow(b, pages, pointer, data, i + 1)

\* The memories memory_base_ may be the base of.
MappedAt(base) == {c \in CompIds : compartments[c].live /\ getMemoryBaseAddress(c) = base}

Linked(v) == v \in alive /\ memory_[v] # Uninit /\ module_instance_[v] # NullPtr

\* The state setMemory leaves when its check passes and memcpy runs.  A copy
\* that stays in the memory is the write.  A copy that leaves it is undefined:
\* the process faults, or the bytes land in other host memory, which may be
\* another VM's linear memory.
MemcpyTo(v, pointer, data) ==
  LET m == CHOOSE c \in MappedAt(memory_base_[v]) : TRUE
      pages == compartments[m].pages
      written == [compartments EXCEPT ![m].bytes = CopyIn(@, pages, pointer, data, 1)]
  IN  IF Outside(pages, pointer, Len(data)) = {}
      THEN /\ compartments' = written
           /\ host' = host
      ELSE \/ /\ host' = "crashed"
              /\ compartments' = compartments
           \/ /\ host' = "corrupt"
              /\ compartments' = written
           \/ \E d \in CompIds \ {m} :
                /\ compartments[d].live /\ compartments[d].pages > 0
                /\ host' = "corrupt"
                /\ compartments' =
                     [written EXCEPT ![d].bytes =
                        CopyBelow(@, compartments[d].pages, pointer, data, 1)]

\* Wavm::setMemory(pointer, size, data), data holding size bytes.
setMemory(v, pointer, data, op) ==
  LET size == ToU64(Len(data))
      num_bytes == memory_num_bytes(v)
      call == [NoLast EXCEPT !.op = op, !.vm = v, !.ptr = pointer, !.len = size,
                             !.data = data, !.size = num_bytes]
  IN  IF ~InBounds(pointer, size, num_bytes)
      THEN /\ last' = [call EXCEPT !.ok = FALSE]
           /\ UNCHANGED <<compartments, host>>
      ELSE /\ MemcpyTo(v, pointer, data)
           /\ last' = [call EXCEPT !.ok = (host' # "crashed")]

SetMemory(v, pointer, data) ==
  /\ Running /\ Linked(v)
  /\ setMemory(v, pointer, data, "setMemory")
  /\ UNCHANGED <<wavmVars, callVars, resolverVars, code>>

\* The n bytes from offset pointer on.
RECURSIVE ReadBytes(_, _, _)
ReadBytes(bytes, pointer, n) ==
  IF n = 0 THEN <<>>
  ELSE Append(ReadBytes(bytes, pointer, n - 1),
              ReadByte(bytes, ToNat(ByteOffset(pointer, n - 1))))

\* The bytes a string_view of n bytes at memory_base_ + pointer shows, read
\* from the memory mapped there.
ViewBytes(v, pointer, n) ==
  ReadBytes(compartments[CHOOSE c \in MappedAt(memory_base_[v]) : TRUE].bytes, pointer, n)

\* What the caller reads through the view {memory_base_ + pointer, size}
\* while every byte of it lies in the memory; <<>> stands for a view that
\* does not.
ViewContent(v, pointer, size) ==
  LET m == CHOOSE c \in MappedAt(memory_base_[v]) : TRUE
  IN  IF FitsNat(size) /\ Outside(compartments[m].pages, pointer, ToNat(size)) = {}
      THEN ViewBytes(v, pointer, ToNat(size))
      ELSE <<>>

\* Wavm::getMemory(pointer, size): the view is the pointer and the size.
GetMemory(v, pointer, size) ==
  /\ Running /\ Linked(v)
  /\ LET ok == InBounds(pointer, size, memory_num_bytes(v))
     IN  last' = [NoLast EXCEPT !.op = "getMemory", !.vm = v, !.ptr = pointer, !.len = size,
                               !.size = memory_num_bytes(v), !.ok = ok,
                               !.data = IF ok THEN ViewContent(v, pointer, size) ELSE <<>>]
  /\ UNCHANGED <<wavmVars, compartments, callVars, host, resolverVars, code>>

\* Word::u32(): the low 32 bits, as the four bytes of a uint32_t in memory
\* (the host is little-endian).
WordBytes(w) == <<w[1] % 256, w[1] \div 256, w[2] % 256, w[2] \div 256>>

\* data->u64_ = data32: a uint32_t from its four bytes, widened.
BytesWord(b) == <<b[1] + 256 * b[2], b[3] + 256 * b[4], 0, 0>>

\* Wavm::setWord(pointer, data)
SetWord(v, pointer, data) ==
  /\ Running /\ Linked(v)
  /\ setMemory(v, pointer, WordBytes(data), "setWord")
  /\ UNCHANGED <<wavmVars, callVars, resolverVars, code>>

\* Wavm::getWord(pointer, data).  A read that leaves the memory is undefined:
\* the process faults or the bytes read are whatever lies there.
GetWord(v, pointer) ==
  /\ Running /\ Linked(v)
  /\ LET num_bytes == memory_num_bytes(v)
         m == CHOOSE c \in MappedAt(memory_base_[v]) : TRUE
         call == [NoLast EXCEPT !.op = "getWord", !.vm = v, !.ptr = pointer,
                                !.len = ToU64(WordSize), !.size = num_bytes]
     IN  IF ~InBounds(pointer, ToU64(WordSize), num_bytes)
         THEN /\ last' = [call EXCEPT !.ok = FALSE]
              /\ host' = host
         ELSE IF Outside(compartments[m].pages, pointer, WordSize) = {}
              THEN /\ last' = [call EXCEPT !.ok = TRUE,
                                 !.word = BytesWord(ViewBytes(v, pointer, WordSize))]
                   /\ host' = host
              ELSE \/ /\ host' = "crashed"
                      /\ last' = [call EXCEPT !.ok = FALSE]
                   \/ \E garbage \in {<<0, 0, 0, 0>>, <<65535, 65535, 0, 0>>} :
                        /\ host' = host
                        /\ last' = [call EXCEPT !.ok = TRUE, !.word = garbage]
  /\ UNCHANGED <<wavmVars, compartments, callVars, resolverVars, code>>

\* ------------------------------------------------- Wavm::getCustomSection
\* The first section of that name, from position i on, as a one-element
\* set; empty when there is none.
RECURSIVE FirstSectionNamed(_, _, _)
FirstSectionNamed(sections, section_name, i) ==
  IF i > Len(sections) THEN {}
  ELSE IF sections[i].name = section_name THEN {sections[i]}
       ELSE FirstSectionNamed(sections, section_name, i + 1)

\* Wavm::getCustomSection(name): the payload of the first section of that
\* name in ir_module_, or the empty view.
GetCustomSection(v, section_name) ==
  /\ Running /\ v \in alive
  /\ LET found == FirstSectionNamed(ir_module_[v].customSections, section_name, 1)
     IN  last' = [NoLast EXCEPT !.op = "getCustomSection", !.vm = v, !.name = section_name,
                               !.ok = (found # {}),
                               !.data = IF found = {} THEN <<>>
                                        ELSE (CHOOSE x \in found : TRUE).data]
  /\ UNCHANGED <<wavmVars, compartments, callVars, host, resolverVars, code>>

\* ------------------------------------------------------- getFunctionWavm
\* A check of the number of arguments only.
checkFunctionArity(f, t) == Len(f.type.args) = Len(t.args)

checkFunctionType(f, t) == f.type = t

\* What getFunctionWavmReturn does with *function: "null" (no such export),
\* "error" (the signature check ends in error(), *function is not written)
\* or "bound" (the lambda is stored).
getFunctionOutcome(exports, function_name, sig) ==
  LET f == getInstanceExport(exports, function_name)
  IN  IF f = NullObject THEN "null"
      ELSE IF ~checkFunctionType(f, inferStdFunctionType(sig)) THEN "error"
      ELSE "bound"

GetFunction(v, function_name, sig) ==
  /\ Running /\ v \in alive /\ module_instance_[v] # NullPtr
  /\ LET exports == compartments[module_instance_[v]].instance
         outcome == getFunctionOutcome(exports, function_name, sig)
         call == [NoLast EXCEPT !.op = "getFunction", !.vm = v, !.name = function_name,
                                !.sig = sig]
     IN  /\ function' =
               IF outcome = "null" THEN NoFunction
               ELSE IF outcome = "error" THEN function
               ELSE [vm |-> v, name |-> function_name, sig |-> sig,
                     type |-> getInstanceExport(exports, function_name).type,
                     instance |-> module_instance_[v]]
         /\ last' =
               IF outcome = "error"
               THEN [call EXCEPT !.ok = FALSE, !.errors = 1,
                                 !.error = error("Bad function signature for: " \o function_name).message]
               ELSE [call EXCEPT !.ok = (outcome = "bound")]
  /\ UNCHANGED <<wavmVars, compartments, current_context_, call_stack, host,
                 resolverVars, code>>

\* -------------------------------------------- calling a guest function
\* The ContextBase objects of the embedding; 0 is "no current context".
Contexts == {1, 2}

\* The faults the engine raises while a guest function runs.
Traps == {"unreachable", "out of bounds memory access"}

\* What a guest function does to its own linear memory before it returns or
\* faults: it may store a byte and may grow the memory by one page.
GuestEffects == {[store |-> s, grow |-> g] : s \in {{}, {<<0, 5>>}}, g \in BOOLEAN}

\* invokeFunction(wavm->context_, f, ...): the guest runs in its compartment.
invokeFunction(comp, effect) ==
  LET stored == IF effect.store = {} THEN comp.bytes
                ELSE LET st == CHOOSE x \in effect.store : TRUE
                     IN  WriteByte(comp.bytes, st[1], st[2])
  IN  [comp EXCEPT !.bytes = stored,
                   !.pages = IF effect.grow /\ @ < MaxPages THEN @ + 1 ELSE @]

\* The invocation without catchRuntimeExceptions around it.
CALL_WITHOUT_CATCH(outcome) == outcome

\* CALL_WITH_CONTEXT around invokeFunction: what leaves the macro for each
\* way the invocation ends.  catchRuntimeExceptions hands a
\* Runtime::Exception to the handler, which describes it, destroys it and
\* throws WasmException(description).
CALL_WITH_CONTEXT(outcome) ==
  IF outcome.kind = "Runtime::Exception"
  THEN [kind |-> "WasmException", what |-> outcome.what]
  ELSE outcome

\* The lambda's try / catch (const std::exception &): a WasmException ends
\* in error("Function: <name> failed: <what>"); anything else passes through.
LambdaResult(function_name, thrown) ==
  IF thrown.kind = "WasmException"
  THEN [kind |-> "error",
        what |-> error("Function: " \o function_name \o " failed: " \o thrown.what).message]
  ELSE thrown

\* SaveRestoreContext _saved_context(context): the object keeps the context
\* that is current and makes the caller's context current.  The class is
\* declared outside this file; it is taken to do what its name says.
SaveRestoreContext(context) == [saved_context |-> current_context_, context |-> context]

\* The saved context put back on a normal return only.
ContextAtReturnOnly(saved, outcome) ==
  IF outcome.kind = "return" THEN saved.saved_context ELSE saved.context

\* _saved_context lives in the block of CALL_WITH_CONTEXT: it is destroyed
\* when the block is left, by falling off its end or by the throw of the
\* exception handler, and then puts the saved context back.
ContextAtScopeExit(saved, outcome) == saved.saved_context

\* The callable getFunction stored is called with the caller's context.
\* SaveRestoreContext makes that context current while the guest runs and
\* restores the one it saved when the block is left, by return or by throw.
Invoke(context, effect, outcome) ==
  /\ Running /\ function # NoFunction
  /\ function.vm \in alive
  /\ LET c == function.instance
         result == LambdaResult(function.name, CALL_WITH_CONTEXT(outcome))
         call == [NoLast EXCEPT !.op = "call", !.vm = function.vm, !.name = function.name,
                                !.context = context]
     IN  /\ compartments' = [compartments EXCEPT ![c] = invokeFunction(@, effect)]
         /\ last' = IF result.kind = "return"
                    THEN [call EXCEPT !.ok = TRUE]
                    ELSE [call EXCEPT !.ok = FALSE, !.errors = 1,
                                      !.error = IF result.kind = "error" THEN result.what
                                                ELSE result.kind]
  /\ current_context_' = ContextAtScopeExit(SaveRestoreContext(context), outcome)
  /\ UNCHANGED <<wavmVars, function, call_stack, host, resolverVars, code>>

\* The same call in steps, for a guest that calls back into the host while
\* it runs.  CallBegin is the lambda up to invokeFunction: the context is
\* saved and the caller's made current.
CallBegin(context) ==
  /\ Running /\ function # NoFunction
  /\ function.vm \in alive
  /\ Len(call_stack) < MaxDepth
  /\ call_stack' = Append(call_stack, [saved |-> SaveRestoreContext(context),
                                       context |-> context, callee |-> function])
  /\ current_context_' = context
  /\ last' = [NoLast EXCEPT !.op = "enter", !.vm = function.vm, !.name = function.name,
                            !.context = context]
  /\ UNCHANGED <<wavmVars, compartments, function, host, resolverVars, code>>

\* The running guest calls a registered host function, which reads the
\* current context.
HostCallback ==
  /\ Running /\ call_stack # <<>>
  /\ last' = [NoLast EXCEPT !.op = "callback", !.context = current_context_]
  /\ UNCHANGED <<wavmVars, compartments, callVars, host, resolverVars, code>>

\* CallEnd is the rest of the lambda: the innermost call returns or faults.
CallEnd(effect, outcome) ==
  /\ Running /\ call_stack # <<>>
  /\ LET top == call_stack[Len(call_stack)]
         c == top.callee.instance
         result == LambdaResult(top.callee.name, CALL_WITH_CONTEXT(outcome))
         call == [NoLast EXCEPT !.op = "call", !.vm = top.callee.vm,
                                !.name = top.callee.name, !.context = top.context]
     IN  /\ compartments' = [compartments EXCEPT ![c] = invokeFunction(@, effect)]
         /\ current_context_' = ContextAtScopeExit(top.saved, outcome)
         /\ call_stack' = SubSeq(call_stack, 1, Len(call_stack) - 1)
         /\ last' = IF result.kind = "return"
                    THEN [call EXCEPT !.ok = TRUE]
                    ELSE [call EXCEPT !.ok = FALSE, !.errors = 1,
                                      !.error = IF result.kind = "error" THEN result.what
                                                ELSE result.kind]
  /\ UNCHANGED <<wavmVars, function, host, resolverVars, code>>

Outcomes ==
  {[kind |-> "return", what |-> ""]} \cup
  {[kind |-> "Runtime::Exception", what |-> t] : t \in Traps}

\* --------------------------------------------------------------- inputs
\* The payload of n bytes: 7, 8, ... ; and the one-byte payload 0.
Payload(n) == [i \in 1..n |-> 6 + i]
Payloads == {Payload(n) : n \in 0..MaxLen} \cup {<<0>>}
SizeNat(v) == compartments[memory_[v]].pages * WasmPageSize

\* Pointers at the start of memory, around its end and at the top of uint64_t.
Pointers(v) ==
  {ToU64(0)} \cup {ToU64(SizeNat(v) - k) : k \in 0..MaxLen}
             \cup {TopMinus(k) : k \in 1..MaxLen}
Sizes == {ToU64(n) : n \in 0..MaxLen} \cup {TopMinus(1)}
WordValues == {<<1, 0, 0, 0>>, <<513, 1027, 5, 0>>}
WordPointers(v) ==
  {ToU64(0), ToU64(SizeNat(v) - WordSize), ToU64(SizeNat(v) - WordSize + 1), TopMinus(1)}
FunctionNames == {"run", "get", "wide", "absent"}
SectionNames == {"producers", getPrecompiledSectionName, "absent"}

\* ------------------------------------------------------- specifications
\* The life of a VM: registration, load, link, function lookup and calls,
\* with a memory read and a memory write.
Next ==
  \/ \E f \in Callbacks : RegisterCallback(1, f)
  \/ \E c \in SampleCodes, a \in BOOLEAN : Load(1, c, a)
  \/ Link(1)
  \/ Linked(1) /\ \E p \in {ToU64(0), ToU64(SizeNat(1))} : GetMemory(1, p, ToU64(1))
  \/ Linked(1) /\ SetMemory(1, ToU64(0), Payload(1))
  \/ \E n \in FunctionNames, t \in NativeSignatures : GetFunction(1, n, t)
  \/ \E c \in Contexts, e \in GuestEffects, o \in Outcomes : Invoke(c, e, o)

Spec == Init /\ [][Next]_vars

\* The memory accessors of one linked VM, over pointers and sizes around the
\* ends of its memory and of the address type.
NextMemory ==
  \/ RegisterCallback(1, [module |-> "env", name |-> "log", type |-> T_v_i])
  \/ Load(1, CodeA, FALSE)
  \/ Link(1)
  \/ Linked(1) /\ \E p \in Pointers(1) \cup {ToU64(1)}, n \in Sizes : GetMemory(1, p, n)
  \/ Linked(1) /\ \E p \in Pointers(1), d \in Payloads : SetMemory(1, p, d)

SpecMemory == Init /\ [][NextMemory]_vars

\* A VM and its clones, each written and read through its own accessors.
NextClone ==
  \/ RegisterCallback(1, [module |-> "env", name |-> "log", type |-> T_v_i])
  \/ Load(1, CodeA, FALSE)
  \/ Link(1)
  \/ \E v \in VmIds : Clone(v)
  \/ \E v \in VmIds : Linked(v) /\
        \E p \in {ToU64(0), ToU64(SizeNat(v) - 1)} : GetMemory(v, p, ToU64(1))
  \/ \E v \in VmIds : Linked(v) /\
        \E p \in {ToU64(0), TopMinus(1)} : SetMemory(v, p, Payload(1))
  \/ \E v \in VmIds : Linked(v) /\ GetWord(v, ToU64(0))
  \/ \E v \in VmIds : Linked(v) /\ SetWord(v, ToU64(0), <<513, 1027, 5, 0>>)

SpecClone == Init /\ [][NextClone]_vars

\* A VM that is loaded more than once.
NextReload ==
  \/ \E f \in Callbacks : RegisterCallback(1, f)
  \/ \E c \in SampleCodes, a \in BOOLEAN : Load(1, c, a)
  \/ \E c \in SampleCodes, a \in BOOLEAN : Reload(1, c, a)
  \/ Link(1)

SpecReload == Init /\ [][NextReload]_vars

\* The word accessors of one linked VM, over pointers at the start of its
\* memory, around its end and at the top of the address type.
NextWord ==
  \/ RegisterCallback(1, [module |-> "env", name |-> "log", type |-> T_v_i])
  \/ Load(1, CodeA, FALSE)
  \/ Link(1)
  \/ Linked(1) /\ \E p \in WordPointers(1) : GetWord(1, p)
  \/ Linked(1) /\ \E p \in WordPointers(1), w \in WordValues : SetWord(1, p, w)

SpecWord == Init /\ [][NextWord]_vars

\* Guest calls that nest: while a call runs, the guest calls back into the
\* host, and the host calls the guest again under another caller.
NextContext ==
  \/ RegisterCallback(1, [module |-> "env", name |-> "log", type |-> T_v_i])
  \/ Load(1, CodeA, FALSE)
  \/ Link(1)
  \/ \E n \in {"run", "get"}, t \in {T_v_i, T_i_i} : GetFunction(1, n, t)
  \/ \E c \in Contexts : CallBegin(c)
  \/ HostCallback
  \/ \E e \in {g \in GuestEffects : ~g.grow}, o \in Outcomes : CallEnd(e, o)

SpecContext == Init /\ [][NextContext]_vars

\* A VM and its clones: custom sections are asked of each, and each may be
\* loaded.
NextCloneLoad ==
  \/ \E f \in Callbacks : RegisterCallback(1, f)
  \/ \E v \in VmIds, c \in SampleCodes, a \in BOOLEAN : Load(v, c, a)
  \/ Link(1)
  \/ \E v \in VmIds : Clone(v)
  \/ \E v \in VmIds, n \in SectionNames : GetCustomSection(v, n)

SpecCloneLoad == Init /\ [][NextCloneLoad]_vars

\* RootResolver: instances are named, fallback resolvers are added, imports
\* are resolved.
Instances ==
  { {},
    {[name |-> "log", type |-> T_v_i]},
    {[name |-> "log", type |-> T_i_i], [name |-> "now", type |-> T_v]} }

SetInstance(module_name, instance) ==
  /\ module_name_to_instance_map_' = MapSet(module_name_to_instance_map_, module_name, instance)
  /\ last' = [NoLast EXCEPT !.op = "setInstance", !.module = module_name]
  /\ UNCHANGED <<wavmVars, compartments, callVars, host, resolvers_, code>>

addResolver(r) ==
  /\ Len(resolvers_) < MaxResolvers
  /\ resolvers_' = Append(resolvers_, r)
  /\ last' = [NoLast EXCEPT !.op = "addResolver", !.winner = r]
  /\ UNCHANGED <<wavmVars, compartments, callVars, host, module_name_to_instance_map_, code>>

Resolve(module_name, export_name, type) ==
  /\ LET r == resolve(module_name_to_instance_map_, resolvers_, module_name, export_name, type)
     IN  last' = [NoLast EXCEPT !.op = "resolve", !.module = module_name,
                                !.name = export_name, !.sig = type,
                                !.ok = r.ret, !.object = r.out_object,
                                !.winner = r.winner, !.consulted = r.consulted,
                                !.error = r.error,
                                !.errors = IF r.ret THEN 0 ELSE 1]
  /\ UNCHANGED <<wavmVars, compartments, callVars, host, resolverVars, code>>

NextResolve ==
  \/ \E m \in {"env"}, i \in Instances : SetInstance(m, i)
  \/ \E r \in Resolvers : addResolver(r)
  \/ \E m \in {"env", "wasi"}, n \in {"log", "now"}, t \in {T_v_i, T_i_i, T_v} :
        Resolve(m, n, t)

SpecResolve == Init /\ [][NextResolve]_vars

\* loadModule over every short byte string made of the magic's bytes and
\* one other byte.
CodeBytes == {0, 97, 115, 109, 1}
Codes == UNION {[1..n -> CodeBytes] : n \in 0..MaxCodeLen}

InitLoadModule == InitWavm /\ code \in Codes

NextLoadModule == \E a \in BOOLEAN : Load(1, code, a)

SpecLoadModule == InitLoadModule /\ [][NextLoadModule]_vars

\* ------------------------------------------------------------ properties
\* The non-wrapping comparison pointer + size <= num_bytes: the 64-bit sum
\* has no carry out of the top limb and is at most num_bytes.
TrueSumWithin(pointer, size, num_bytes) ==
  AddCarry(pointer, size).carry = 0 /\ U64Le(AddCarry(pointer, size).sum, num_bytes)

\* C1: getMemory(p, n) and setMemory(p, n, data) succeed exactly when the
\* true sum p + n is at most the memory size; a pair whose sum overflows 64
\* bits fails.
C1_BoundsExact ==
  last.op \in {"getMemory", "setMemory"} =>
    (last.ok <=> TrueSumWithin(last.ptr, last.len, last.size))

\* C2: a setMemory whose true range p + n exceeds the memory returns false,
\* changes no byte of any memory and nothing else of the VMs, and leaves the
\* host running.
C2_OutOfBoundsNoEffect ==
  [][ (last'.op = "setMemory" /\ ~TrueSumWithin(last'.ptr, last'.len, last'.size))
        => /\ ~last'.ok
           /\ UNCHANGED <<wavmVars, compartments, callVars, host>> ]_vars

\* The bytes of a memory at offsets outside [p, p + n).
BytesOutside(bytes, p, n) == {x \in bytes : x[1] < p \/ x[1] >= p + n}

\* C3: a setMemory(p, n, data) with p + n within the memory returns true,
\* stores data at p .. p + n - 1 and changes no other byte of any memory; a
\* getMemory(p, n) made right after it returns exactly data.
C3_RoundTrip ==
  [][ /\ (last'.op = "setMemory" /\ TrueSumWithin(last'.ptr, last'.len, last'.size))
         => LET v == last'.vm
                p == ToNat(last'.ptr)
                n == Len(last'.data)
            IN  /\ last'.ok
                /\ host' = host
                /\ \A i \in 1..n :
                     ReadByte(compartments'[memory_[v]].bytes, p + i - 1) = last'.data[i]
                /\ BytesOutside(compartments'[memory_[v]].bytes, p, n)
                     = BytesOutside(compartments[memory_[v]].bytes, p, n)
                /\ \A c \in CompIds \ {memory_[v]} : compartments'[c] = compartments[c]
      /\ (/\ last.op = "setMemory" /\ last.ok
          /\ TrueSumWithin(last.ptr, last.len, last.size)
          /\ last'.op = "getMemory"
          /\ last'.vm = last.vm /\ last'.ptr = last.ptr /\ last'.len = last.len)
         => (last'.ok /\ last'.data = last.data) ]_vars

\* A two-byte payload written to the last two bytes of the memory has just
\* been read back.
C3_Witness ==
  /\ last.op = "getMemory" /\ last.ok
  /\ last.ptr = ToU64(SizeNat(1) - 2)
  /\ last.data = Payload(2)
  /\ ReadBytes(compartments[memory_[1]].bytes, ToU64(0), 1) = <<7>>
\* The exports of that name in the instance the map holds for the module.
NamedExports(module_name, export_name) ==
  {e \in UNION {x.instance : x \in MapGet(module_name_to_instance_map_, module_name)} :
     e.name = export_name}

\* C4: when the named instance holds the export under the requested names
\* with another type, resolve fails with a type-mismatch error and consults
\* no fallback resolver.
C4_MismatchIsHardError ==
  (/\ last.op = "resolve"
   /\ \E e \in NamedExports(last.module, last.name) : e.type # last.sig)
  => /\ ~last.ok /\ last.errors = 1
     /\ last.error = "type mismatch in an import: " \o last.module \o "." \o last.name
     /\ last.consulted = <<>> /\ last.winner = 0

\* env.log was asked as (i32) -> void, the named instance has it as
\* (i32) -> i32, and a fallback resolver offering it as asked was added.
C4_Witness ==
  /\ last.op = "resolve" /\ ~last.ok
  /\ last.module = "env" /\ last.name = "log" /\ last.sig = T_v_i
  /\ [name |-> "log", type |-> T_i_i] \in NamedExports("env", "log")
  /\ \E i \in 1..Len(resolvers_) : ResolverResolve(resolvers_[i], "env", "log", T_v_i)

\* The positions of resolvers_ whose resolver satisfies the request.
Offering(module_name, export_name, type) ==
  {i \in 1..Len(resolvers_) : ResolverResolve(resolvers_[i], module_name, export_name, type)}

\* C5: an export of the named instance with the requested type is the
\* result and no fallback resolver is consulted; when the named instance or
\* the export is absent the fallback resolvers are consulted in the order
\* they were added, up to the first that succeeds, whose object is the result.
C5_ResolutionOrder ==
  last.op = "resolve" =>
    LET named == NamedExports(last.module, last.name)
        offering == Offering(last.module, last.name, last.sig)
    IN  /\ (\E e \in named : e.type = last.sig)
           => /\ last.ok /\ last.object = [owner |-> "instance", type |-> last.sig]
              /\ last.consulted = <<>> /\ last.winner = 0
        /\ (named = {} /\ offering # {})
           => LET k == CHOOSE i \in offering : \A j \in offering : i <= j
              IN  /\ last.ok /\ last.object = [owner |-> "resolver", type |-> last.sig]
                  /\ last.winner = resolvers_[k]
                  /\ last.consulted = SubSeq(resolvers_, 1, k)
        /\ (named = {} /\ offering = {})
           => /\ ~last.ok /\ last.consulted = resolvers_
              /\ last.error = "missing import: " \o last.module \o "." \o last.name

\* env.now was resolved by resolver 2, added before resolver 3 which offers
\* it too.
C5_Witness ==
  /\ last.op = "resolve" /\ last.ok
  /\ last.module = "env" /\ last.name = "now" /\ last.sig = T_v
  /\ resolvers_ = <<2, 3>>
  /\ last.winner = 2 /\ last.consulted = <<2>>

\* The imports of the loaded module that no registered intrinsic function
\* satisfies, by name or by type.
Unresolved(v) ==
  {i \in 1..Len(ir_module_[v].imports) :
     [module |-> ir_module_[v].imports[i].module, name |-> ir_module_[v].imports[i].name,
      type |-> ir_module_[v].imports[i].type] \notin intrinsic_modules_[v]}

\* C6: link fails exactly when an import is unresolved; the failure is one
\* error naming the module and export of an unresolved import, and
\* module_instance_, memory_ and memory_base_ keep their values from before
\* any link, with no instance in the compartment.
C6_NoPartialLink ==
  /\ last.op = "link" =>
       /\ last.ok <=> Unresolved(last.vm) = {}
       /\ ~last.ok =>
            /\ last.errors = 1
            /\ \E i \in Unresolved(last.vm) :
                 LET imp == ir_module_[last.vm].imports[i]
                 IN  last.error \in
                       {"missing import: " \o imp.module \o "." \o imp.name,
                        "type mismatch in an import: " \o imp.module \o "." \o imp.name}
  /\ Unresolved(1) # {} =>
       /\ module_instance_[1] = NullPtr /\ memory_[1] = Uninit /\ memory_base_[1] = NullPtr
       /\ compartment_[1] # NullPtr =>
            /\ compartments[compartment_[1]].instance = {}
            /\ compartments[compartment_[1]].pages = 0

\* A link has just failed on env.log, registered with a type other than the
\* one the module imports.
C6_Witness ==
  /\ last.op = "link" /\ ~last.ok
  /\ last.error = "type mismatch in an import: env.log"
  /\ intrinsic_modules_[1] # {}
  /\ module_[1].kind # "null"

\* C7: a setMemory or setWord on one VM changes the memory of no other VM.
C7_WritesStayInOwnMemory ==
  [][ last'.op \in {"setMemory", "setWord"}
        => \A c \in CompIds \ {memory_[last'.vm]} : compartments'[c] = compartments[c] ]_vars

\* The exports of that name in the module instance of VM v.
ExportsNamed(v, function_name) ==
  {e \in compartments[module_instance_[v]].instance : e.name = function_name}

\* C8: getFunction on an export whose type differs from the requested
\* signature ends in one error, stores no callable and runs nothing; on an
\* absent export it stores the null callable and raises no error; a callable
\* is only ever bound to an export of exactly the requested type.
C8_SignatureChecked ==
  [][ last'.op = "getFunction" =>
        LET named == ExportsNamed(last'.vm, last'.name)
        IN  /\ named = {}
               => function' = NoFunction /\ ~last'.ok /\ last'.errors = 0
            /\ (\E e \in named : e.type # last'.sig)
               => /\ ~last'.ok /\ last'.errors = 1
                  /\ last'.error = "Bad function signature for: " \o last'.name
                  /\ function' = function
                  /\ compartments' = compartments
            /\ (\E e \in named : e.type = last'.sig)
               => /\ last'.ok /\ last'.errors = 0
                  /\ function'.name = last'.name /\ function'.sig = last'.sig
            /\ function' # NoFunction
               => /\ function'.type = function'.sig
                  /\ [name |-> function'.name, type |-> function'.sig]
                       \in compartments[function'.instance].instance ]_vars

\* The export "wide", of type (i64) -> void, has just been asked for as
\* (i32) -> void.
C8_Witness ==
  /\ last.op = "getFunction" /\ last.name = "wide" /\ last.sig = T_v_i
  /\ [name |-> "wide", type |-> T_v_l] \in compartments[module_instance_[1]].instance
  /\ last.errors = 1

\* C9, as stated: a call that faults leaves the VM, its memory included, as
\* it was before the call.
C9_AsIfNotMade ==
  [][ (last'.op = "call" /\ ~last'.ok)
        => /\ last'.errors = 1
           /\ UNCHANGED <<wavmVars, compartments, callVars, host>> ]_vars

\* The messages a fault surfaces as.
InvocationErrors(function_name) ==
  {"Function: " \o function_name \o " failed: " \o t : t \in Traps}

\* C9, amended: a call that faults surfaces as one invocation error carrying
\* the function's name and the fault's description; no field of the VM, no
\* other compartment and nothing of the instance but its own linear memory
\* has changed, the callable is still bound and the host runs; the accessor
\* or call that follows succeeds whenever it would have without the fault.
C9_FaultIsLocal ==
  [][ /\ (last'.op = "call" /\ ~last'.ok)
         => /\ last'.errors = 1
            /\ last'.error \in InvocationErrors(function.name)
            /\ UNCHANGED <<wavmVars, callVars, host>>
            /\ \A c \in CompIds \ {function.instance} : compartments'[c] = compartments[c]
            /\ compartments'[function.instance].live
            /\ compartments'[function.instance].instance = compartments[function.instance].instance
            /\ compartments'[function.instance].intrinsics = compartments[function.instance].intrinsics
            /\ compartments'[function.instance].pages >= compartments[function.instance].pages
      /\ (last.op = "call" /\ ~last.ok)
         => /\ Running /\ function # NoFunction /\ Linked(function.vm)
            /\ (last'.op = "getMemory" /\ TrueSumWithin(last'.ptr, last'.len, last'.size))
               => last'.ok /\ last'.data = ViewContent(last'.vm, last'.ptr, last'.len)
            /\ (last'.op = "setMemory" /\ TrueSumWithin(last'.ptr, last'.len, last'.size))
               => last'.ok
            /\ last'.op = "call"
               => (last'.ok \/ last'.error \in InvocationErrors(function.name)) ]_vars

\* The call of "run" has just ended in the fault "unreachable", after the
\* guest stored a byte and grew its memory.
C9_Witness ==
  /\ last.op = "call" /\ ~last.ok
  /\ last.error = "Function: run failed: unreachable"
  /\ <<0, 5>> \in compartments[function.instance].bytes
  /\ compartments[function.instance].pages = 2

\* C10: loadModule parses as binary exactly when the code has at least four
\* bytes and the first four are 00 61 73 6d, and as text otherwise.
C10_FormatDetection ==
  last.op = "load" =>
    /\ last.parser \in {"binary", "text"}
    /\ last.parser = "binary"
         <=> (Len(last.data) >= 4 /\ SubSeq(last.data, 1, 4) = <<0, 97, 115, 109>>)

\* The first three bytes of the magic alone were parsed as text.
C10_Witness ==
  /\ last.op = "load" /\ last.data = <<0, 97, 115>>
  /\ last.parser = "text" /\ ~last.ok
\* The positions of the custom sections of that name in the parsed module.
SectionsNamed(v, section_name) ==
  {i \in 1..Len(ir_module_[v].customSections) :
     ir_module_[v].customSections[i].name = section_name}

\* C11: after a load that parsed its module, the executable is the payload
\* of the first custom section named exactly "wavm.precompiled_object" when
\* allow_precompiled was true and there is such a section; otherwise it is
\* compiled from the module and carries no section payload.
C11_PrecompiledSelection ==
  (last.op = "load" /\ last.ok) =>
    LET v == last.vm
        named == SectionsNamed(v, "wavm.precompiled_object")
    IN  /\ module_[v].ir = ir_module_[v]
        /\ (last.allow /\ named # {})
           => /\ module_[v].kind = "precompiled"
              /\ module_[v].object =
                   ir_module_[v].customSections[CHOOSE i \in named : \A j \in named : i <= j].data
        /\ ~(last.allow /\ named # {})
           => module_[v].kind = "compiled" /\ module_[v].object = <<>>

\* A module with two sections of the precompiled name, behind two sections
\* of other names, was loaded with the flag set: the payload of the first of
\* the two is the executable.
C11_Witness ==
  /\ last.op = "load" /\ last.ok /\ last.allow
  /\ Cardinality(SectionsNamed(1, "wavm.precompiled_object")) = 2
  /\ module_[1].kind = "precompiled" /\ module_[1].object = <<2, 3>>
\* C12: every load sets has_instantiated_module_, whether it parsed its
\* module or not, and nothing clears the flag, so every load of a VM after
\* its first finds the assertion !has_instantiated_module_ violated; a load
\* that fails to parse returns false and assigns no module_: after a failed
\* first load module_ is null.
C12_LoadOneShot ==
  [][ /\ \A v \in VmIds : has_instantiated_module_[v] => has_instantiated_module_'[v]
      /\ last'.op = "load" =>
           LET v == last'.vm
           IN  /\ Running' => has_instantiated_module_'[v]
               /\ last'.errors = 1 <=> compartment_[v] # NullPtr
               /\ last'.errors = 1 => last'.error = "ASSERT(!has_instantiated_module_)"
               /\ (last.op = "load" /\ last.vm = v) => last'.errors = 1
               /\ ~last'.ok => module_' = module_
               /\ (~last'.ok /\ last'.errors = 0) => module_'[v] = NullModule ]_vars

\* A load that failed to parse was followed by another load of the same VM,
\* which found the assertion violated.
C12_Witness ==
  /\ last.op = "load" /\ last.errors = 1
  /\ module_[1] = NullModule /\ ir_module_[1] = EmptyModule
  /\ has_instantiated_module_[1]
\* C13: a setWord(p, v) with p + 4 within the memory returns true and
\* changes bytes p .. p + 3 only, and the getWord(p) right after it returns
\* true with the low 32 bits of v; a getWord or setWord with p + 4 beyond the
\* memory returns false and changes nothing.
C13_WordAccess ==
  [][ last'.op \in {"getWord", "setWord"} =>
        LET v == last'.vm
            within == TrueSumWithin(last'.ptr, ToU64(4), last'.size)
        IN  /\ (last'.op = "setWord" /\ within)
               => /\ last'.ok /\ host' = host
                  /\ Len(last'.data) = 4
                  /\ BytesOutside(compartments'[memory_[v]].bytes, ToNat(last'.ptr), 4)
                       = BytesOutside(compartments[memory_[v]].bytes, ToNat(last'.ptr), 4)
                  /\ \A c \in CompIds \ {memory_[v]} : compartments'[c] = compartments[c]
            /\ (last'.op = "getWord" /\ within)
               => /\ last'.ok
                  /\ UNCHANGED <<compartments, host>>
                  /\ (last.op = "setWord" /\ last.ok /\ last.vm = v /\ last.ptr = last'.ptr)
                     => last'.word = BytesWord(last.data)
            /\ ~within
               => /\ ~last'.ok
                  /\ UNCHANGED <<wavmVars, compartments, callVars, host>> ]_vars
\* C14: whenever an accessor reads or writes through memory_base_, that
\* value is the memory's base address and was fetched after the memory last
\* grew: the memory has as many pages as it had at the fetch.
C14_BaseRefetched ==
  (last.op \in {"getMemory", "setMemory", "getWord", "setWord"} /\ last.ok) =>
    /\ memory_base_[last.vm] = getMemoryBaseAddress(memory_[last.vm])
    /\ base_fetched_at_[last.vm] = compartments[memory_[last.vm]].pages
\* C15: when a call begins, the caller's context becomes current; a host
\* callback made while calls run sees the context of the innermost call's
\* caller; when a call ends, by return or by fault, the current context is
\* again the one from before it: the caller of the enclosing call, or none
\* when no call encloses it.
C15_ContextRestored ==
  [][ /\ last'.op = "enter"
         => /\ current_context_' = last'.context
            /\ call_stack'[Len(call_stack')].context = last'.context
      /\ last'.op = "callback"
         => /\ last'.context = call_stack[Len(call_stack)].context
            /\ current_context_' = current_context_
      /\ (last'.op = "call" /\ Len(call_stack') < Len(call_stack))
         => /\ last'.context = call_stack[Len(call_stack)].context
            /\ current_context_' =
                 IF Len(call_stack) = 1 THEN 0
                 ELSE call_stack[Len(call_stack) - 1].context
      /\ call_stack' = <<>> => current_context_' = 0 ]_vars

\* A call made for caller 2 from inside a call made for caller 1 has just
\* ended in a fault: caller 1's context is current again.
C15_Witness ==
  /\ last.op = "call" /\ ~last.ok /\ last.context = 2
  /\ Len(call_stack) = 1 /\ call_stack[1].context = 1
  /\ current_context_ = 1
\* The VMs that are as clone() made them: not the first VM, and with the
\* compartment the clone was given.
AsCloned == {w \in alive \ {1} : compartment_[w] = module_instance_[w]}

\* C16: the VM clone() makes has the copies of a source VM's compartment,
\* memory, context, intrinsic instances and module instance, an empty parsed
\* module, no module_ and has_instantiated_module_ false; getCustomSection on
\* it returns the empty view for every name, and its first load finds the
\* assertion holding.
C16_CloneLeavesModuleBehind ==
  [][ /\ last'.op = "clone"
         => LET w == last'.vm
            IN  /\ w \notin alive /\ w \in alive'
                /\ \E v \in alive :
                     /\ compartments'[compartment_'[w]] = compartments[compartment_[v]]
                     /\ compartment_'[w] # compartment_[v]
                     /\ {p.module : p \in intrinsic_module_instances_'[w]}
                          = {p.module : p \in intrinsic_module_instances_[v]}
                /\ memory_'[w] = compartment_'[w] /\ context_'[w] = compartment_'[w]
                /\ module_instance_'[w] = compartment_'[w]
                /\ \A p \in intrinsic_module_instances_'[w] : p.comp = compartment_'[w]
                /\ ir_module_'[w] = EmptyModule /\ module_'[w] = NullModule
                /\ ~has_instantiated_module_'[w]
      /\ \A w \in AsCloned : ~has_instantiated_module_[w] /\ ir_module_[w] = EmptyModule
      /\ (last'.op = "getCustomSection" /\ last'.vm \in AsCloned)
         => ~last'.ok /\ last'.data = <<>>
      /\ (last'.op = "load" /\ last'.vm \in AsCloned)
         => last'.errors = 0 /\ last'.error = "none" /\ has_instantiated_module_'[last'.vm] ]_vars

\* The section "producers", whose payload the source VM holds, has just
\* been asked of its clone, which returned the empty view.
C16_Witness ==
  /\ last.op = "getCustomSection" /\ last.name = "producers" /\ last.vm = 2
  /\ 2 \in AsCloned
  /\ last.data = <<>>
  /\ FirstSectionNamed(ir_module_[1].customSections, "producers", 1)
       = {[name |-> "producers", data |-> <<1>>]}

====
